---- MODULE Spec2Model ----
(***************************************************************************)
(* Binary payload codec of iota.js (src/binary/payload.ts): the length     *)
(* framed payload envelope, the four payload variant codecs and the        *)
(* Milestone -> envelope recursion.                                        *)
(*                                                                         *)
(* Representation.  A byte is a number 0..255.  A hex string is a sequence *)
(* of nibbles 0..15 (two per byte).  A text string is a sequence of code   *)
(* points of the basic plane, so Len(s) is JavaScript's s.length.  A       *)
(* uint64 is the pair [hi, lo] of its 32-bit halves.  undefined is the     *)
(* absent payload, NoData the absent (undefined) data of an Indexation.    *)
(* Streams are records; a thrown Error is the non-empty field err, and a   *)
(* stream that carries an error ignores every later operation, as the      *)
(* exception unwinds the callers.                                          *)
(***************************************************************************)
EXTENDS Integers, Sequences, FiniteSets, TLC

\* ------------------------------------------------------------ constants

BYTE_SIZE == 1
UINT16_SIZE == 2
UINT32_SIZE == 4
UINT64_SIZE == 8
TYPE_LENGTH == 4
STRING_LENGTH == 2
MESSAGE_ID_LENGTH == 32
MERKLE_PROOF_LENGTH == 32
PUBLIC_KEY_SIZE == 32
SIGNATURE_SIZE == 64
TAIL_HASH_LENGTH == 49
ADDRESS_LENGTH == 32
INPUT_LENGTH == 34
OUTPUT_LENGTH == 41
UNLOCK_BLOCK_LENGTH == 97
MIN_FUNDS_COUNT == 1

TRANSACTION_PAYLOAD_TYPE == 0
MILESTONE_PAYLOAD_TYPE == 1
INDEXATION_PAYLOAD_TYPE == 2
RECEIPT_PAYLOAD_TYPE == 3
TRANSACTION_ESSENCE_TYPE == 0

MIN_MIGRATED_FUNDS_LENGTH ==
    TAIL_HASH_LENGTH + BYTE_SIZE + UINT64_SIZE

MIN_PAYLOAD_LENGTH == TYPE_LENGTH

MIN_MILESTONE_PAYLOAD_LENGTH ==
    MIN_PAYLOAD_LENGTH + UINT32_SIZE + UINT64_SIZE + MESSAGE_ID_LENGTH
    + MESSAGE_ID_LENGTH + MERKLE_PROOF_LENGTH + BYTE_SIZE + PUBLIC_KEY_SIZE
    + BYTE_SIZE + SIGNATURE_SIZE

MIN_INDEXATION_PAYLOAD_LENGTH ==
    MIN_PAYLOAD_LENGTH + STRING_LENGTH + 1 + STRING_LENGTH

MIN_TRANSACTION_PAYLOAD_LENGTH == MIN_PAYLOAD_LENGTH + UINT32_SIZE

MIN_RECEIPT_PAYLOAD_LENGTH ==
    MIN_PAYLOAD_LENGTH + UINT32_SIZE + UINT16_SIZE + MIN_MIGRATED_FUNDS_LENGTH

MIN_INDEXATION_KEY_LENGTH == 1

MAX_INDEXATION_KEY_LENGTH == 64

\* ------------------------------------------------------------ values

undefined == [type |-> -1]

NoData == <<-1>>

\* JavaScript truthiness of an optional string: undefined and "" are falsy.
Truthy(s) == s # NoData /\ s # <<>>

\* ------------------------------------------------------------ conversions

\* Converter.hexToBytes: two nibbles make one byte.
HexToBytes(hex) ==
    [i \in 1..(Len(hex) \div 2) |-> 16 * hex[2 * i - 1] + hex[2 * i]]

\* Converter.bytesToHex.
BytesToHex(bytes) ==
    [i \in 1..(2 * Len(bytes)) |->
        IF i % 2 = 1 THEN bytes[(i + 1) \div 2] \div 16
                     ELSE bytes[i \div 2] % 16]

\* UTF-8 encoding of one code point (basic plane).
Utf8Char(cp) ==
    IF cp < 128 THEN <<cp>>
    ELSE IF cp < 2048 THEN <<192 + (cp \div 64), 128 + (cp % 64)>>
    ELSE <<224 + (cp \div 4096), 128 + ((cp \div 64) % 64), 128 + (cp % 64)>>

\* Converter.utf8ToBytes: the encodings of the characters, in order.
RECURSIVE Utf8ToBytes(_)
Utf8ToBytes(s) ==
    IF s = <<>> THEN <<>>
    ELSE IF Len(s) = 1 THEN Utf8Char(s[1])
    ELSE Utf8ToBytes(SubSeq(s, 1, Len(s) \div 2))
         \o Utf8ToBytes(SubSeq(s, Len(s) \div 2 + 1, Len(s)))

\* Byte i of b continues a multi-byte sequence.
Continues(b, i) == i <= Len(b) /\ b[i] >= 128 /\ b[i] < 192

\* The number of bytes of the character that starts at byte i of b: a lead
\* byte with its continuation bytes, else the byte alone.
Utf8Width(b, i) ==
    IF b[i] >= 192 /\ b[i] < 224 /\ Continues(b, i + 1) THEN 2
    ELSE IF b[i] >= 224 /\ b[i] < 240 /\ Continues(b, i + 1) /\ Continues(b, i + 2) THEN 3
    ELSE 1

\* Byte i of b starts a character (it is not the continuation of a lead).
StartsChar(b, i) ==
    ~ \/ Continues(b, i) /\ i > 1 /\ Utf8Width(b, i - 1) >= 2
      \/ Continues(b, i) /\ i > 2 /\ Utf8Width(b, i - 2) = 3

\* Converter.bytesToUtf8: a byte that starts no complete sequence decodes
\* alone.
BytesToUtf8(b) ==
    LET starts == SelectSeq([i \in 1..Len(b) |-> i], LAMBDA i : StartsChar(b, i))
    IN [k \in 1..Len(starts) |->
          LET i == starts[k]
          IN CASE Utf8Width(b, i) = 2 -> (b[i] % 32) * 64 + (b[i + 1] % 64)
               [] Utf8Width(b, i) = 3 ->
                     (b[i] % 16) * 4096 + (b[i + 1] % 64) * 64 + (b[i + 2] % 64)
               [] OTHER -> b[i]]

\* Little-endian bytes of an unsigned integer of n bytes (n <= 4).
UIntBytes(val, n) ==
    [i \in 1..n |-> CASE i = 1 -> val % 256
                      [] i = 2 -> (val \div 256) % 256
                      [] i = 3 -> (val \div 65536) % 256
                      [] OTHER -> (val \div 16777216) % 256]

\* The unsigned integer that the n bytes after index idx (0-based) hold.
UIntAt(storage, idx, n) ==
    storage[idx + 1]
    + (IF n >= 2 THEN 256 * storage[idx + 2] ELSE 0)
    + (IF n >= 3 THEN 65536 * storage[idx + 3] ELSE 0)
    + (IF n >= 4 THEN 16777216 * storage[idx + 4] ELSE 0)

\* ------------------------------------------------------------ WriteStream

NewWriteStream(bytes) ==
    [storage |-> bytes, writeIndex |-> Len(bytes), err |-> "", envelopes |-> <<>>]

Throw(ws, e) == IF ws.err # "" THEN ws ELSE [ws EXCEPT !.err = e]

getWriteIndex(ws) == ws.writeIndex

setWriteIndex(ws, writeIndex) ==
    IF ws.err # "" THEN ws ELSE [ws EXCEPT !.writeIndex = writeIndex]

\* Writes at the write index: overwrites in place, grows the storage at its
\* end, and advances the index.
WriteBytes(ws, bytes) ==
    IF ws.err # "" THEN ws
    ELSE LET at == ws.writeIndex
             n == Len(bytes)
         IN [ws EXCEPT
                !.storage = SubSeq(@, 1, at) \o bytes \o SubSeq(@, at + n + 1, Len(@)),
                !.writeIndex = at + n]

writeByte(ws, val) == WriteBytes(ws, <<val % 256>>)

writeUInt16(ws, val) == WriteBytes(ws, UIntBytes(val % 65536, UINT16_SIZE))

writeUInt32(ws, val) == WriteBytes(ws, UIntBytes(val, UINT32_SIZE))

writeUInt64(ws, val) ==
    WriteBytes(ws, UIntBytes(val.lo, UINT32_SIZE) \o UIntBytes(val.hi, UINT32_SIZE))

writeFixedHex(ws, length, val) ==
    IF length * 2 # Len(val) THEN Throw(ws, "HexLength")
    ELSE WriteBytes(ws, HexToBytes(val))

writeString(ws, val) ==
    LET bytes == Utf8ToBytes(val)
    IN WriteBytes(writeUInt16(ws, Len(bytes)), bytes)

\* ------------------------------------------------------------ ReadStream
\* A read is a record [err, val, idx]: the error thrown (or ""), the value
\* read and the read index after it.

hasRemaining(storage, idx, remaining) == remaining <= Len(storage) - idx

Fail(e, idx) == [err |-> e, val |-> undefined, idx |-> idx, depth |-> 0]

Ok(v, idx) == [err |-> "", val |-> v, idx |-> idx, depth |-> 0]

readByte(storage, idx, moveIndex) ==
    IF ~hasRemaining(storage, idx, BYTE_SIZE) THEN Fail("StreamRange", idx)
    ELSE Ok(storage[idx + 1], IF moveIndex THEN idx + BYTE_SIZE ELSE idx)

readUInt16(storage, idx) ==
    IF ~hasRemaining(storage, idx, UINT16_SIZE) THEN Fail("StreamRange", idx)
    ELSE Ok(UIntAt(storage, idx, UINT16_SIZE), idx + UINT16_SIZE)

readUInt32(storage, idx, moveIndex) ==
    IF ~hasRemaining(storage, idx, UINT32_SIZE) THEN Fail("StreamRange", idx)
    ELSE Ok(UIntAt(storage, idx, UINT32_SIZE),
            IF moveIndex THEN idx + UINT32_SIZE ELSE idx)

readUInt64(storage, idx) ==
    IF ~hasRemaining(storage, idx, UINT64_SIZE) THEN Fail("StreamRange", idx)
    ELSE Ok([hi |-> UIntAt(storage, idx + UINT32_SIZE, UINT32_SIZE),
             lo |-> UIntAt(storage, idx, UINT32_SIZE)],
            idx + UINT64_SIZE)

readFixedHex(storage, idx, length) ==
    IF ~hasRemaining(storage, idx, length) THEN Fail("StreamRange", idx)
    ELSE Ok(BytesToHex(SubSeq(storage, idx + 1, idx + length)), idx + length)

readString(storage, idx) ==
    LET len == readUInt16(storage, idx)
    IN IF len.err # "" THEN len
       ELSE IF ~hasRemaining(storage, len.idx, len.val) THEN Fail("StreamRange", len.idx)
       ELSE Ok(BytesToUtf8(SubSeq(storage, len.idx + 1, len.idx + len.val)),
               len.idx + len.val)

\* ------------------------------------------------------------ sub-codecs
\* The essence, unlock block and migrated funds codecs: a count prefix, then
\* per entry a type byte and fixed-size fields.

\* The stream after the last of the statements; the statements run in order,
\* each on the stream that the one before it left.
InOrder(steps) == steps[Len(steps)]

RECURSIVE WriteTyped(_, _, _)
WriteTyped(ws, objects, length) ==
    IF ws.err # "" \/ objects = <<>> THEN ws
    ELSE WriteTyped(
            writeFixedHex(writeByte(ws, Head(objects).type), length, Head(objects).data),
            Tail(objects), length)

serializeTypedList(ws, objects, length) ==
    WriteTyped(writeUInt16(ws, Len(objects)), objects, length)

RECURSIVE ReadTyped(_, _, _, _, _)
ReadTyped(storage, idx, count, length, acc) ==
    IF count = 0 THEN Ok(acc, idx)
    ELSE LET type == readByte(storage, idx, TRUE)
             data == readFixedHex(storage, type.idx, length)
         IN IF type.err # "" THEN type
            ELSE IF type.val # 0 THEN Fail("UnrecognizedEntryType", type.idx)
            ELSE IF data.err # "" THEN data
            ELSE ReadTyped(storage, data.idx, count - 1, length,
                           Append(acc, [type |-> type.val, data |-> data.val]))

deserializeTypedList(storage, idx, length) ==
    LET count == readUInt16(storage, idx)
    IN IF count.err # "" THEN count
       ELSE ReadTyped(storage, count.idx, count.val, length, <<>>)

serializeTransactionEssence(ws, object) ==
    LET w1 == writeByte(ws, object.type)
        w2 == serializeTypedList(w1, object.inputs, INPUT_LENGTH)
        w3 == serializeTypedList(w2, object.outputs, OUTPUT_LENGTH)
    IN InOrder(<<w1, w2, w3>>)

deserializeTransactionEssence(storage, idx) ==
    LET type == readByte(storage, idx, TRUE)
        inputs == deserializeTypedList(storage, type.idx, INPUT_LENGTH)
        outputs == deserializeTypedList(storage, inputs.idx, OUTPUT_LENGTH)
    IN IF type.err # "" THEN type
       ELSE IF type.val # TRANSACTION_ESSENCE_TYPE
           THEN Fail("TypeMismatchEssence", type.idx)
       ELSE IF inputs.err # "" THEN inputs
       ELSE IF outputs.err # "" THEN outputs
       ELSE Ok([type |-> TRANSACTION_ESSENCE_TYPE, inputs |-> inputs.val,
                outputs |-> outputs.val], outputs.idx)

serializeUnlockBlocks(ws, objects) ==
    serializeTypedList(ws, objects, UNLOCK_BLOCK_LENGTH)

deserializeUnlockBlocks(storage, idx) ==
    deserializeTypedList(storage, idx, UNLOCK_BLOCK_LENGTH)

serializeMigratedFunds(ws, object) ==
    LET w1 == writeFixedHex(ws, TAIL_HASH_LENGTH, object.tailTransactionHash)
        w2 == writeByte(w1, object.address.type)
        w3 == writeFixedHex(w2, ADDRESS_LENGTH, object.address.address)
        w4 == writeUInt64(w3, object.deposit)
    IN InOrder(<<w1, w2, w3, w4>>)

RECURSIVE WriteFunds(_, _)
WriteFunds(ws, objects) ==
    IF ws.err # "" \/ objects = <<>> THEN ws
    ELSE WriteFunds(serializeMigratedFunds(ws, Head(objects)), Tail(objects))

serializeFunds(ws, objects) ==
    IF Len(objects) < MIN_FUNDS_COUNT THEN Throw(ws, "FundsCount")
    ELSE WriteFunds(writeUInt16(ws, Len(objects)), objects)

deserializeMigratedFunds(storage, idx) ==
    IF ~hasRemaining(storage, idx, MIN_MIGRATED_FUNDS_LENGTH)
    THEN Fail("MigratedFundsMin", idx)
    ELSE LET hash == readFixedHex(storage, idx, TAIL_HASH_LENGTH)
             type == readByte(storage, hash.idx, TRUE)
             addr == readFixedHex(storage, type.idx, ADDRESS_LENGTH)
             deposit == readUInt64(storage, addr.idx)
         IN IF hash.err # "" THEN hash
            ELSE IF type.err # "" THEN type
            ELSE IF type.val # 0 THEN Fail("UnrecognizedEntryType", type.idx)
            ELSE IF addr.err # "" THEN addr
            ELSE IF deposit.err # "" THEN deposit
            ELSE Ok([tailTransactionHash |-> hash.val,
                     address |-> [type |-> type.val, address |-> addr.val],
                     deposit |-> deposit.val], deposit.idx)

RECURSIVE ReadFunds(_, _, _, _)
ReadFunds(storage, idx, count, acc) ==
    IF count = 0 THEN Ok(acc, idx)
    ELSE LET funds == deserializeMigratedFunds(storage, idx)
         IN IF funds.err # "" THEN funds
            ELSE ReadFunds(storage, funds.idx, count - 1, Append(acc, funds.val))

deserializeFunds(storage, idx) ==
    LET count == readUInt16(storage, idx)
    IN IF count.err # "" THEN count
       ELSE ReadFunds(storage, count.idx, count.val, <<>>)

\* ------------------------------------------------------------ serialize

RECURSIVE WriteHexes(_, _, _)
WriteHexes(ws, hexes, length) ==
    IF ws.err # "" \/ hexes = <<>> THEN ws
    ELSE WriteHexes(writeFixedHex(ws, length, Head(hexes)), Tail(hexes), length)

serializeTransactionPayload(ws, object) ==
    LET w1 == writeUInt32(ws, object.type)
        w2 == serializeTransactionEssence(w1, object.essence)
        w3 == serializeUnlockBlocks(w2, object.unlockBlocks)
    IN IF object.type = TRANSACTION_PAYLOAD_TYPE
       THEN InOrder(<<w1, w2, w3>>)
       ELSE Throw(w1, "UnrecognizedType")

\* Mutant: the data length is written in hex characters, not in bytes.
serializeIndexationPayload_LengthInChars(ws, object) ==
    IF Len(object.index) < MIN_INDEXATION_KEY_LENGTH THEN Throw(ws, "IndexKeyLength")
    ELSE IF Len(object.index) > MAX_INDEXATION_KEY_LENGTH THEN Throw(ws, "IndexKeyLength")
    ELSE LET w1 == writeUInt32(ws, object.type)
             w2 == writeString(w1, object.index)
             w3 == writeUInt32(w2, Len(object.data))
             w4 == writeFixedHex(w3, Len(object.data) \div 2, object.data)
         IN IF Truthy(object.data)
            THEN InOrder(<<w1, w2, w3, w4>>)
            ELSE writeUInt32(w2, 0)

serializeIndexationPayload(ws, object) ==
    IF Len(object.index) < MIN_INDEXATION_KEY_LENGTH THEN Throw(ws, "IndexKeyLength")
    ELSE IF Len(object.index) > MAX_INDEXATION_KEY_LENGTH THEN Throw(ws, "IndexKeyLength")
    ELSE LET w1 == writeUInt32(ws, object.type)
             w2 == writeString(w1, object.index)
             w3 == writeUInt32(w2, Len(object.data) \div 2)
             w4 == writeFixedHex(w3, Len(object.data) \div 2, object.data)
         IN IF Truthy(object.data)
            THEN InOrder(<<w1, w2, w3, w4>>)
            ELSE writeUInt32(w2, 0)

serializeReceiptPayload(ws, object) ==
    LET w1 == writeUInt32(ws, object.type)
        w2 == writeUInt32(w1, object.migratedAt)
        w3 == serializeFunds(w2, object.funds)
    IN InOrder(<<w1, w2, w3>>)

RECURSIVE serializePayload(_, _)
RECURSIVE serializeMilestonePayload(_, _)

serializeMilestonePayload(ws, object) ==
    LET w1 == writeUInt32(ws, object.type)
        w2 == writeUInt32(w1, object.index)
        w3 == writeUInt64(w2, object.timestamp)
        w4 == writeFixedHex(w3, MESSAGE_ID_LENGTH, object.parent1MessageId)
        w5 == writeFixedHex(w4, MESSAGE_ID_LENGTH, object.parent2MessageId)
        w6 == writeFixedHex(w5, MERKLE_PROOF_LENGTH, object.inclusionMerkleProof)
        w7 == writeByte(w6, Len(object.publicKeys))
        w8 == WriteHexes(w7, object.publicKeys, PUBLIC_KEY_SIZE)
        w9 == serializePayload(w8, object.receipt)
        w10 == writeByte(w9, Len(object.signatures))
        w11 == WriteHexes(w10, object.signatures, SIGNATURE_SIZE)
    IN InOrder(<<w1, w2, w3, w4, w5, w6, w7, w8, w9, w10, w11>>)

\* Mutant: the back-patched length counts the length field itself.
serializePayload_LengthCountsField(ws, object) ==
    LET payloadLengthWriteIndex == getWriteIndex(ws)
        w1 == writeUInt32(ws, 0)
        w2 == IF object = undefined THEN w1
              ELSE IF object.type = TRANSACTION_PAYLOAD_TYPE
                  THEN serializeTransactionPayload(w1, object)
              ELSE IF object.type = MILESTONE_PAYLOAD_TYPE
                  THEN serializeMilestonePayload(w1, object)
              ELSE IF object.type = INDEXATION_PAYLOAD_TYPE
                  THEN serializeIndexationPayload(w1, object)
              ELSE IF object.type = RECEIPT_PAYLOAD_TYPE
                  THEN serializeReceiptPayload(w1, object)
              ELSE Throw(w1, "UnrecognizedType")
        endOfPayloadWriteIndex == getWriteIndex(w2)
        w3 == setWriteIndex(w2, payloadLengthWriteIndex)
        w4 == writeUInt32(w3, endOfPayloadWriteIndex - payloadLengthWriteIndex)
        w5 == setWriteIndex(w4, endOfPayloadWriteIndex)
        done == InOrder(<<w1, w2, w3, w4, w5>>)
    IN IF done.err # "" THEN done
       ELSE [done EXCEPT !.envelopes = Append(@,
                [lengthIndex |-> payloadLengthWriteIndex,
                 end |-> endOfPayloadWriteIndex,
                 before |-> w2.storage,
                 after |-> done.storage])]

\* envelopes is the history of the completed calls: where each wrote its
\* length field, where it ended, and the storage before and after its
\* back-patch.
serializePayload(ws, object) ==
    LET payloadLengthWriteIndex == getWriteIndex(ws)
        w1 == writeUInt32(ws, 0)
        w2 == IF object = undefined THEN w1
              ELSE IF object.type = TRANSACTION_PAYLOAD_TYPE
                  THEN serializeTransactionPayload(w1, object)
              ELSE IF object.type = MILESTONE_PAYLOAD_TYPE
                  THEN serializeMilestonePayload(w1, object)
              ELSE IF object.type = INDEXATION_PAYLOAD_TYPE
                  THEN serializeIndexationPayload(w1, object)
              ELSE IF object.type = RECEIPT_PAYLOAD_TYPE
                  THEN serializeReceiptPayload(w1, object)
              ELSE Throw(w1, "UnrecognizedType")
        endOfPayloadWriteIndex == getWriteIndex(w2)
        w3 == setWriteIndex(w2, payloadLengthWriteIndex)
        w4 == writeUInt32(w3, endOfPayloadWriteIndex - payloadLengthWriteIndex - UINT32_SIZE)
        w5 == setWriteIndex(w4, endOfPayloadWriteIndex)
        done == InOrder(<<w1, w2, w3, w4, w5>>)
    IN IF done.err # "" THEN done
       ELSE [done EXCEPT !.envelopes = Append(@,
                [lengthIndex |-> payloadLengthWriteIndex,
                 end |-> endOfPayloadWriteIndex,
                 before |-> w2.storage,
                 after |-> done.storage])]

\* ------------------------------------------------------------ deserialize
\* A decode is a read whose depth is the largest number of deserializePayload
\* calls that were active at once during it.

RECURSIVE ReadHexes(_, _, _, _, _)
ReadHexes(storage, idx, count, length, acc) ==
    IF count = 0 THEN Ok(acc, idx)
    ELSE LET hex == readFixedHex(storage, idx, length)
         IN IF hex.err # "" THEN hex
            ELSE ReadHexes(storage, hex.idx, count - 1, length, Append(acc, hex.val))

\* Number(timestamp): exact below 2^53.
Number(big) == big

deserializeTransactionPayload(storage, idx) ==
    IF ~hasRemaining(storage, idx, MIN_TRANSACTION_PAYLOAD_LENGTH)
    THEN Fail("TransactionMin", idx)
    ELSE LET type == readUInt32(storage, idx, TRUE)
             essenceType == readByte(storage, type.idx, FALSE)
             essence == deserializeTransactionEssence(storage, essenceType.idx)
             unlockBlocks == deserializeUnlockBlocks(storage, essence.idx)
         IN IF type.err # "" THEN type
            ELSE IF type.val # TRANSACTION_PAYLOAD_TYPE THEN Fail("TypeMismatch", type.idx)
            ELSE IF essenceType.err # "" THEN essenceType
            ELSE IF essenceType.val # TRANSACTION_ESSENCE_TYPE
                THEN Fail("UnrecognizedEssenceType", essenceType.idx)
            ELSE IF essence.err # "" THEN essence
            ELSE IF unlockBlocks.err # "" THEN unlockBlocks
            ELSE Ok([type |-> TRANSACTION_PAYLOAD_TYPE,
                     essence |-> essence.val,
                     unlockBlocks |-> unlockBlocks.val], unlockBlocks.idx)

deserializeIndexationPayload(storage, idx) ==
    IF ~hasRemaining(storage, idx, MIN_INDEXATION_PAYLOAD_LENGTH)
    THEN Fail("IndexationMin", idx)
    ELSE LET type == readUInt32(storage, idx, TRUE)
             index == readString(storage, type.idx)
             dataLength == readUInt32(storage, index.idx, TRUE)
             data == readFixedHex(storage, dataLength.idx, dataLength.val)
         IN IF type.err # "" THEN type
            ELSE IF type.val # INDEXATION_PAYLOAD_TYPE THEN Fail("TypeMismatch", type.idx)
            ELSE IF index.err # "" THEN index
            ELSE IF dataLength.err # "" THEN dataLength
            ELSE IF data.err # "" THEN data
            ELSE Ok([type |-> INDEXATION_PAYLOAD_TYPE,
                     index |-> index.val,
                     data |-> data.val], data.idx)

deserializeReceiptPayload(storage, idx) ==
    IF ~hasRemaining(storage, idx, MIN_RECEIPT_PAYLOAD_LENGTH)
    THEN Fail("ReceiptMin", idx)
    ELSE LET type == readUInt32(storage, idx, TRUE)
             migratedAt == readUInt32(storage, type.idx, TRUE)
             funds == deserializeFunds(storage, migratedAt.idx)
         IN IF type.err # "" THEN type
            ELSE IF type.val # RECEIPT_PAYLOAD_TYPE THEN Fail("TypeMismatch", type.idx)
            ELSE IF migratedAt.err # "" THEN migratedAt
            ELSE IF funds.err # "" THEN funds
            ELSE Ok([type |-> RECEIPT_PAYLOAD_TYPE,
                     migratedAt |-> migratedAt.val,
                     funds |-> funds.val], funds.idx)

RECURSIVE deserializePayload(_, _)
RECURSIVE deserializeMilestonePayload(_, _)

\* Mutant: the kind of the embedded payload is not checked.
deserializeMilestonePayload_NoKindCheck(storage, idx) ==
    IF ~hasRemaining(storage, idx, MIN_MILESTONE_PAYLOAD_LENGTH)
    THEN Fail("MilestoneMin", idx)
    ELSE LET type == readUInt32(storage, idx, TRUE)
             index == readUInt32(storage, type.idx, TRUE)
             timestamp == readUInt64(storage, index.idx)
             parent1MessageId == readFixedHex(storage, timestamp.idx, MESSAGE_ID_LENGTH)
             parent2MessageId ==
                 readFixedHex(storage, parent1MessageId.idx, MESSAGE_ID_LENGTH)
             inclusionMerkleProof ==
                 readFixedHex(storage, parent2MessageId.idx, MERKLE_PROOF_LENGTH)
             publicKeysCount == readByte(storage, inclusionMerkleProof.idx, TRUE)
             publicKeys == ReadHexes(storage, publicKeysCount.idx, publicKeysCount.val,
                                     PUBLIC_KEY_SIZE, <<>>)
             receipt == deserializePayload(storage, publicKeys.idx)
             signaturesCount == readByte(storage, receipt.idx, TRUE)
             signatures == ReadHexes(storage, signaturesCount.idx, signaturesCount.val,
                                     SIGNATURE_SIZE, <<>>)
         IN IF type.err # "" THEN type
            ELSE IF type.val # MILESTONE_PAYLOAD_TYPE THEN Fail("TypeMismatch", type.idx)
            ELSE IF index.err # "" THEN index
            ELSE IF timestamp.err # "" THEN timestamp
            ELSE IF parent1MessageId.err # "" THEN parent1MessageId
            ELSE IF parent2MessageId.err # "" THEN parent2MessageId
            ELSE IF inclusionMerkleProof.err # "" THEN inclusionMerkleProof
            ELSE IF publicKeysCount.err # "" THEN publicKeysCount
            ELSE IF publicKeys.err # "" THEN publicKeys
            ELSE IF receipt.err # "" THEN receipt
            ELSE IF signaturesCount.err # ""
                THEN [signaturesCount EXCEPT !.depth = receipt.depth]
            ELSE IF signatures.err # ""
                THEN [signatures EXCEPT !.depth = receipt.depth]
            ELSE [Ok([type |-> MILESTONE_PAYLOAD_TYPE,
                      index |-> index.val,
                      timestamp |-> Number(timestamp.val),
                      parent1MessageId |-> parent1MessageId.val,
                      parent2MessageId |-> parent2MessageId.val,
                      inclusionMerkleProof |-> inclusionMerkleProof.val,
                      publicKeys |-> publicKeys.val,
                      receipt |-> receipt.val,
                      signatures |-> signatures.val], signatures.idx)
                  EXCEPT !.depth = receipt.depth]

deserializeMilestonePayload(storage, idx) ==
    IF ~hasRemaining(storage, idx, MIN_MILESTONE_PAYLOAD_LENGTH)
    THEN Fail("MilestoneMin", idx)
    ELSE LET type == readUInt32(storage, idx, TRUE)
             index == readUInt32(storage, type.idx, TRUE)
             timestamp == readUInt64(storage, index.idx)
             parent1MessageId == readFixedHex(storage, timestamp.idx, MESSAGE_ID_LENGTH)
             parent2MessageId ==
                 readFixedHex(storage, parent1MessageId.idx, MESSAGE_ID_LENGTH)
             inclusionMerkleProof ==
                 readFixedHex(storage, parent2MessageId.idx, MERKLE_PROOF_LENGTH)
             publicKeysCount == readByte(storage, inclusionMerkleProof.idx, TRUE)
             publicKeys == ReadHexes(storage, publicKeysCount.idx, publicKeysCount.val,
                                     PUBLIC_KEY_SIZE, <<>>)
             receipt == deserializePayload(storage, publicKeys.idx)
             signaturesCount == readByte(storage, receipt.idx, TRUE)
             signatures == ReadHexes(storage, signaturesCount.idx, signaturesCount.val,
                                     SIGNATURE_SIZE, <<>>)
         IN IF type.err # "" THEN type
            ELSE IF type.val # MILESTONE_PAYLOAD_TYPE THEN Fail("TypeMismatch", type.idx)
            ELSE IF index.err # "" THEN index
            ELSE IF timestamp.err # "" THEN timestamp
            ELSE IF parent1MessageId.err # "" THEN parent1MessageId
            ELSE IF parent2MessageId.err # "" THEN parent2MessageId
            ELSE IF inclusionMerkleProof.err # "" THEN inclusionMerkleProof
            ELSE IF publicKeysCount.err # "" THEN publicKeysCount
            ELSE IF publicKeys.err # "" THEN publicKeys
            ELSE IF receipt.err # "" THEN receipt
            ELSE IF receipt.val # undefined /\ receipt.val.type # RECEIPT_PAYLOAD_TYPE
                THEN [Fail("NestedKind", receipt.idx) EXCEPT !.depth = receipt.depth]
            ELSE IF signaturesCount.err # ""
                THEN [signaturesCount EXCEPT !.depth = receipt.depth]
            ELSE IF signatures.err # ""
                THEN [signatures EXCEPT !.depth = receipt.depth]
            ELSE [Ok([type |-> MILESTONE_PAYLOAD_TYPE,
                      index |-> index.val,
                      timestamp |-> Number(timestamp.val),
                      parent1MessageId |-> parent1MessageId.val,
                      parent2MessageId |-> parent2MessageId.val,
                      inclusionMerkleProof |-> inclusionMerkleProof.val,
                      publicKeys |-> publicKeys.val,
                      receipt |-> receipt.val,
                      signatures |-> signatures.val], signatures.idx)
                  EXCEPT !.depth = receipt.depth]

\* Mutant: the declared length is not checked against the remaining bytes.
deserializePayload_NoLengthCheck(storage, idx) ==
    IF ~hasRemaining(storage, idx, MIN_PAYLOAD_LENGTH)
    THEN [Fail("PayloadMin", idx) EXCEPT !.depth = 1]
    ELSE LET payloadLength == readUInt32(storage, idx, TRUE)
             payloadType == readUInt32(storage, payloadLength.idx, FALSE)
             payload ==
                 IF payloadType.err # "" THEN payloadType
                 ELSE IF payloadType.val = TRANSACTION_PAYLOAD_TYPE
                     THEN deserializeTransactionPayload(storage, payloadLength.idx)
                 ELSE IF payloadType.val = MILESTONE_PAYLOAD_TYPE
                     THEN deserializeMilestonePayload(storage, payloadLength.idx)
                 ELSE IF payloadType.val = INDEXATION_PAYLOAD_TYPE
                     THEN deserializeIndexationPayload(storage, payloadLength.idx)
                 ELSE IF payloadType.val = RECEIPT_PAYLOAD_TYPE
                     THEN deserializeReceiptPayload(storage, payloadLength.idx)
                 ELSE Fail("UnrecognizedPayloadType", payloadLength.idx)
         IN IF payloadLength.val > 0
                THEN [payload EXCEPT !.depth = 1 + payload.depth]
            ELSE [Ok(undefined, payloadLength.idx) EXCEPT !.depth = 1]

\* Mutant: an unknown type tag yields no payload instead of an error.
deserializePayload_UnknownTypeIsAbsent(storage, idx) ==
    IF ~hasRemaining(storage, idx, MIN_PAYLOAD_LENGTH)
    THEN [Fail("PayloadMin", idx) EXCEPT !.depth = 1]
    ELSE LET payloadLength == readUInt32(storage, idx, TRUE)
             payloadType == readUInt32(storage, payloadLength.idx, FALSE)
             payload ==
                 IF payloadType.err # "" THEN payloadType
                 ELSE IF payloadType.val = TRANSACTION_PAYLOAD_TYPE
                     THEN deserializeTransactionPayload(storage, payloadLength.idx)
                 ELSE IF payloadType.val = MILESTONE_PAYLOAD_TYPE
                     THEN deserializeMilestonePayload(storage, payloadLength.idx)
                 ELSE IF payloadType.val = INDEXATION_PAYLOAD_TYPE
                     THEN deserializeIndexationPayload(storage, payloadLength.idx)
                 ELSE IF payloadType.val = RECEIPT_PAYLOAD_TYPE
                     THEN deserializeReceiptPayload(storage, payloadLength.idx)
                 ELSE Ok(undefined, payloadLength.idx)
         IN IF ~hasRemaining(storage, payloadLength.idx, payloadLength.val)
            THEN [Fail("PayloadLength", payloadLength.idx) EXCEPT !.depth = 1]
            ELSE IF payloadLength.val > 0
                THEN [payload EXCEPT !.depth = 1 + payload.depth]
            ELSE [Ok(undefined, payloadLength.idx) EXCEPT !.depth = 1]

deserializePayload(storage, idx) ==
    IF ~hasRemaining(storage, idx, MIN_PAYLOAD_LENGTH)
    THEN [Fail("PayloadMin", idx) EXCEPT !.depth = 1]
    ELSE LET payloadLength == readUInt32(storage, idx, TRUE)
             payloadType == readUInt32(storage, payloadLength.idx, FALSE)
             payload ==
                 IF payloadType.err # "" THEN payloadType
                 ELSE IF payloadType.val = TRANSACTION_PAYLOAD_TYPE
                     THEN deserializeTransactionPayload(storage, payloadLength.idx)
                 ELSE IF payloadType.val = MILESTONE_PAYLOAD_TYPE
                     THEN deserializeMilestonePayload(storage, payloadLength.idx)
                 ELSE IF payloadType.val = INDEXATION_PAYLOAD_TYPE
                     THEN deserializeIndexationPayload(storage, payloadLength.idx)
                 ELSE IF payloadType.val = RECEIPT_PAYLOAD_TYPE
                     THEN deserializeReceiptPayload(storage, payloadLength.idx)
                 ELSE Fail("UnrecognizedPayloadType", payloadLength.idx)
         IN IF ~hasRemaining(storage, payloadLength.idx, payloadLength.val)
            THEN [Fail("PayloadLength", payloadLength.idx) EXCEPT !.depth = 1]
            ELSE IF payloadLength.val > 0
                THEN [payload EXCEPT !.depth = 1 + payload.depth]
            ELSE [Ok(undefined, payloadLength.idx) EXCEPT !.depth = 1]

\* ------------------------------------------------------------ inputs

MaxKeys == 2
MaxFunds == 2
MaxData == 2
MaxOutputs == 6
MaxNest == 2
MaxPrefix == 3
MaxTrail == 4

\* The hex string of n bytes, each equal to b.
Fill(n, b) == [i \in 1..(2 * n) |-> IF i % 2 = 1 THEN b \div 16 ELSE b % 16]

\* The string of n characters, each the code point cp.
Str(n, cp) == [i \in 1..n |-> cp]

Copies(n, x) == [i \in 1..n |-> x]

\* "A" is one byte of UTF-8, "e acute" (233) is two.
IndexStrings ==
    {Str(n, 65) : n \in {0, 1, 2, MAX_INDEXATION_KEY_LENGTH, MAX_INDEXATION_KEY_LENGTH + 1}}
    \cup {Str(n, 233) : n \in {1, MAX_INDEXATION_KEY_LENGTH \div 2,
                               MAX_INDEXATION_KEY_LENGTH \div 2 + 1,
                               MAX_INDEXATION_KEY_LENGTH}}

IndexData == {NoData, <<>>, Fill(1, 17), Fill(MaxData, 42)}

Indexation(index, data) ==
    [type |-> INDEXATION_PAYLOAD_TYPE, index |-> index, data |-> data]

Indexations == {Indexation(i, d) : i \in IndexStrings, d \in IndexData}

MigratedFunds ==
    [tailTransactionHash |-> Fill(TAIL_HASH_LENGTH, 17),
     address |-> [type |-> 0, address |-> Fill(ADDRESS_LENGTH, 34)],
     deposit |-> [hi |-> 0, lo |-> 1000]]

Receipt(n) ==
    [type |-> RECEIPT_PAYLOAD_TYPE, migratedAt |-> 3, funds |-> Copies(n, MigratedFunds)]

Receipts == {Receipt(n) : n \in 0..MaxFunds}

Transaction(outputs, b) ==
    [type |-> TRANSACTION_PAYLOAD_TYPE,
     essence |-> [type |-> TRANSACTION_ESSENCE_TYPE,
                  inputs |-> <<[type |-> 0, data |-> Fill(INPUT_LENGTH, b)]>>,
                  outputs |-> Copies(outputs, [type |-> 0, data |-> Fill(OUTPUT_LENGTH, b)])],
     unlockBlocks |-> <<[type |-> 0, data |-> Fill(UNLOCK_BLOCK_LENGTH, b)]>>]

Transactions == {Transaction(n, b) : n \in {1, MaxOutputs}, b \in {0, 17}}

MilestoneHeads ==
    {[index |-> 0, timestamp |-> [hi |-> 1, lo |-> 7]],
     [index |-> 5, timestamp |-> [hi |-> 0, lo |-> 1]]}

Milestone(head, keys, sigs, receipt) ==
    [type |-> MILESTONE_PAYLOAD_TYPE,
     index |-> head.index,
     timestamp |-> head.timestamp,
     parent1MessageId |-> Fill(MESSAGE_ID_LENGTH, 1),
     parent2MessageId |-> Fill(MESSAGE_ID_LENGTH, 2),
     inclusionMerkleProof |-> Fill(MERKLE_PROOF_LENGTH, 3),
     publicKeys |-> Copies(keys, Fill(PUBLIC_KEY_SIZE, 4)),
     receipt |-> receipt,
     signatures |-> Copies(sigs, Fill(SIGNATURE_SIZE, 5))]

\* What a Milestone embeds: nothing or a Receipt, and the kinds that the
\* serializer writes all the same when handed them.
Embedded ==
    {undefined, Receipt(1), Receipt(MaxFunds),
     Transaction(1, 0), Indexation(Str(1, 65), NoData)}

Milestones ==
    {Milestone(h, k, s, r) :
        h \in MilestoneHeads, k \in 0..MaxKeys, s \in 0..MaxKeys, r \in Embedded}

\* Milestones that embed Milestones, n levels deep.
RECURSIVE Nested(_)
Nested(n) ==
    IF n = 0
    THEN {Milestone(h, 1, 1, r) : h \in MilestoneHeads, r \in {undefined, Receipt(1)}}
    ELSE {Milestone(h, 1, 1, m) : h \in MilestoneHeads, m \in Nested(n - 1)}

NestedMilestones == UNION {Nested(n) : n \in 1..MaxNest}

Payloads ==
    {undefined} \cup Transactions \cup Milestones \cup NestedMilestones
    \cup Indexations \cup Receipts

Prefixes == {<<>>, Copies(MaxPrefix, 9)}

\* A payload value of the protocol (spec section 3).
RECURSIVE ValidPayload(_)
ValidPayload(p) ==
    CASE p = undefined -> TRUE
      [] p.type = TRANSACTION_PAYLOAD_TYPE ->
            /\ Len(p.essence.inputs) >= 1
            /\ Len(p.essence.outputs) >= 1
            /\ Len(p.unlockBlocks) >= 1
      [] p.type = MILESTONE_PAYLOAD_TYPE ->
            /\ Len(p.publicKeys) \in 1..255
            /\ Len(p.signatures) \in 1..255
            /\ p.timestamp.hi < 2097152
            /\ \/ p.receipt = undefined
               \/ p.receipt.type = RECEIPT_PAYLOAD_TYPE /\ ValidPayload(p.receipt)
      [] p.type = INDEXATION_PAYLOAD_TYPE ->
            /\ Len(Utf8ToBytes(p.index)) \in
                   MIN_INDEXATION_KEY_LENGTH..MAX_INDEXATION_KEY_LENGTH
            /\ p.data = NoData \/ Len(p.data) % 2 = 0
      [] p.type = RECEIPT_PAYLOAD_TYPE -> Len(p.funds) >= MIN_FUNDS_COUNT
      [] OTHER -> FALSE

\* ------------------------------------------------------------ state

VARIABLES
    pc,           \* "idle", "written" (an encoder returned or threw),
                  \* "readable" (a read stream is set up), "decoded"
    called,       \* the encoder that was called
    object,       \* the value handed to the encoder
    before,       \* the write stream when the encoder was called
    writeStream,  \* the write stream after the call
    readStream,   \* [storage, readIndex]: the read stream handed to the decoder
    origin,       \* how the read stream's bytes were made
    result        \* what deserializePayload returned or threw

vars == <<pc, called, object, before, writeStream, readStream, origin, result>>

NoStream == [storage |-> <<>>, readIndex |-> 0]

NoResult == [err |-> "none", val |-> undefined, idx |-> 0, depth |-> 0]

Init ==
    /\ pc = "idle"
    /\ called = "none"
    /\ object = undefined
    /\ before = NewWriteStream(<<>>)
    /\ writeStream = NewWriteStream(<<>>)
    /\ readStream = NoStream
    /\ origin = "none"
    /\ result = NoResult

\* serializePayload(writeStream, object) on a write stream that may already
\* hold bytes.
CallSerializePayload ==
    /\ pc = "idle"
    /\ \E obj \in Payloads, pre \in Prefixes :
          /\ object' = obj
          /\ before' = NewWriteStream(pre)
          /\ writeStream' = serializePayload(NewWriteStream(pre), obj)
    /\ called' = "serializePayload"
    /\ pc' = "written"
    /\ UNCHANGED <<readStream, origin, result>>

\* serializeIndexationPayload(writeStream, object) called directly.
CallSerializeIndexationPayload ==
    /\ pc = "idle"
    /\ \E obj \in Indexations, pre \in Prefixes :
          /\ object' = obj
          /\ before' = NewWriteStream(pre)
          /\ writeStream' = serializeIndexationPayload(NewWriteStream(pre), obj)
    /\ called' = "serializeIndexationPayload"
    /\ pc' = "written"
    /\ UNCHANGED <<readStream, origin, result>>

\* new ReadStream(bytes, start) over the bytes the envelope encoder wrote.
NewReadStream ==
    /\ pc = "written"
    /\ called = "serializePayload"
    /\ writeStream.err = ""
    /\ readStream' = [storage |-> writeStream.storage, readIndex |-> before.writeIndex]
    /\ origin' = "encoded"
    /\ pc' = "readable"
    /\ UNCHANGED <<called, object, before, writeStream, result>>

Encoding == SubSeq(readStream.storage, readStream.readIndex + 1, Len(readStream.storage))

\* The stream holds only the first k bytes of the encoding.
Truncate ==
    /\ pc = "readable"
    /\ origin = "encoded"
    /\ ValidPayload(object)
    /\ \E k \in 0..(Len(Encoding) - 1) :
          readStream' = [readStream EXCEPT
              !.storage = SubSeq(@, 1, readStream.readIndex + k)]
    /\ origin' = "truncated"
    /\ UNCHANGED <<pc, called, object, before, writeStream, result>>

Patch(storage, at, bytes) ==
    SubSeq(storage, 1, at) \o bytes \o SubSeq(storage, at + Len(bytes) + 1, Len(storage))

KnownTypes ==
    {TRANSACTION_PAYLOAD_TYPE, MILESTONE_PAYLOAD_TYPE,
     INDEXATION_PAYLOAD_TYPE, RECEIPT_PAYLOAD_TYPE}

\* The 4 bytes of the type tag are replaced.  The body is decoded as another
\* kind only when each byte after the length field is below 128, so that
\* every uint32 read from it is below 2^31.
MutateType ==
    /\ pc = "readable"
    /\ origin = "encoded"
    /\ Len(Encoding) >= UINT32_SIZE + TYPE_LENGTH
    /\ \E t \in KnownTypes \cup {4, 256} :
          /\ t # object.type
          /\ t \in KnownTypes =>
                \A i \in (UINT32_SIZE + 1)..Len(Encoding) : Encoding[i] < 128
          /\ readStream' = [readStream EXCEPT
                !.storage = Patch(@, readStream.readIndex + UINT32_SIZE,
                                  UIntBytes(t, TYPE_LENGTH))]
    /\ origin' = "retyped"
    /\ UNCHANGED <<pc, called, object, before, writeStream, result>>

\* More bytes follow the encoding in the stream.
AppendBytes ==
    /\ pc = "readable"
    /\ origin = "encoded"
    /\ readStream' = [readStream EXCEPT !.storage = @ \o Copies(MaxTrail, 0)]
    /\ origin' = "extended"
    /\ UNCHANGED <<pc, called, object, before, writeStream, result>>

\* The 4 bytes of the declared length are replaced.
MutateLength ==
    /\ pc = "readable"
    /\ origin \in {"encoded", "extended"}
    /\ LET declared == UIntAt(readStream.storage, readStream.readIndex, UINT32_SIZE)
       IN \E l \in {1, declared - 1, declared + 1} :
             /\ l >= 0
             /\ l # declared
             /\ readStream' = [readStream EXCEPT
                   !.storage = Patch(@, readStream.readIndex, UIntBytes(l, UINT32_SIZE))]
    /\ origin' = "relengthed"
    /\ UNCHANGED <<pc, called, object, before, writeStream, result>>

\* deserializePayload(readStream).
CallDeserializePayload ==
    /\ pc = "readable"
    /\ result' = deserializePayload(readStream.storage, readStream.readIndex)
    /\ pc' = "decoded"
    /\ UNCHANGED <<called, object, before, writeStream, readStream, origin>>

Reset ==
    /\ pc \in {"written", "decoded"}
    /\ pc' = "idle"
    /\ called' = "none"
    /\ object' = undefined
    /\ before' = NewWriteStream(<<>>)
    /\ writeStream' = NewWriteStream(<<>>)
    /\ readStream' = NoStream
    /\ origin' = "none"
    /\ result' = NoResult

Next ==
    \/ CallSerializePayload
    \/ CallSerializeIndexationPayload
    \/ NewReadStream
    \/ Truncate
    \/ MutateType
    \/ AppendBytes
    \/ MutateLength
    \/ CallDeserializePayload
    \/ Reset

Spec == Init /\ [][Next]_vars

\* ------------------------------------------------------------ properties

Start == readStream.readIndex

\* The declared length and the type tag that the stream holds at its start.
Declared == UIntAt(readStream.storage, Start, UINT32_SIZE)

Tag == UIntAt(readStream.storage, Start + UINT32_SIZE, TYPE_LENGTH)

Encoded == pc = "decoded" /\ origin = "encoded" /\ ValidPayload(object)

Decoded(p) ==
    IF p # undefined /\ p.type = INDEXATION_PAYLOAD_TYPE /\ p.data = NoData
    THEN [p EXCEPT !.data = <<>>]
    ELSE p

Written == pc = "written" /\ called = "serializePayload" /\ writeStream.err = ""

\* C2: after a successful serializePayload from position P0 to P1, the 4
\* bytes at P0 hold P1 - P0 - 4, which is the number of bytes the variant
\* codec wrote (0 for no payload, 11 for the Indexation of "A" without data),
\* the write position is P1 at the end of the storage, and the bytes before
\* P0 are as they were.  The same holds of every envelope written inside a
\* Milestone, and each back-patch changes only its own 4 bytes.
C2_LengthSelfConsistent ==
    Written =>
        LET P0 == before.writeIndex
            P1 == writeStream.writeIndex
            storage == writeStream.storage
            envelopes == writeStream.envelopes
        IN /\ UIntAt(storage, P0, UINT32_SIZE) = P1 - P0 - UINT32_SIZE
           /\ P1 = Len(storage)
           /\ SubSeq(storage, 1, P0) = before.storage
           /\ object = undefined => P1 - P0 - UINT32_SIZE = 0
           /\ object = Indexation(Str(1, 65), NoData) => P1 - P0 - UINT32_SIZE = 11
           /\ envelopes # <<>>
           /\ envelopes[Len(envelopes)].lengthIndex = P0
           /\ envelopes[Len(envelopes)].end = P1
           /\ \A n \in 1..Len(envelopes) :
                LET e == envelopes[n]
                IN /\ UIntAt(storage, e.lengthIndex, UINT32_SIZE)
                          = e.end - e.lengthIndex - UINT32_SIZE
                   /\ Len(e.after) = Len(e.before)
                   /\ \A i \in 1..Len(e.before) :
                          (i <= e.lengthIndex \/ i > e.lengthIndex + UINT32_SIZE)
                              => e.after[i] = e.before[i]

C2_Witness ==
    /\ Written
    /\ before.writeIndex > 0
    /\ object.type = MILESTONE_PAYLOAD_TYPE
    /\ object.receipt.type = RECEIPT_PAYLOAD_TYPE
    /\ Len(writeStream.envelopes) = 2
    /\ writeStream.envelopes[1].end - writeStream.envelopes[1].lengthIndex > UINT32_SIZE

\* C3: deserializePayload on a strict prefix of the encoding of a valid
\* payload throws one of the envelope's two truncation errors and returns
\* nothing.
C3_TruncationDetected ==
    (pc = "decoded" /\ origin = "truncated") =>
        /\ result.err \in {"PayloadMin", "PayloadLength"}
        /\ result.err = "PayloadMin" <=> Len(Encoding) < MIN_PAYLOAD_LENGTH

C3_Witness ==
    /\ pc = "decoded"
    /\ origin = "truncated"
    /\ object.type = MILESTONE_PAYLOAD_TYPE
    /\ Len(Encoding) >= UINT32_SIZE + MIN_MILESTONE_PAYLOAD_LENGTH
    /\ result.err = "PayloadLength"

\* The envelope's two checks passed and a type tag can be peeked.
Dispatched ==
    /\ pc = "decoded"
    /\ hasRemaining(readStream.storage, Start, MIN_PAYLOAD_LENGTH)
    /\ Declared > 0
    /\ hasRemaining(readStream.storage, Start + UINT32_SIZE, Declared)
    /\ hasRemaining(readStream.storage, Start + UINT32_SIZE, TYPE_LENGTH)

\* C4: when the declared length is positive, deserializePayload returns a
\* payload of the kind that the type tag in the bytes names, or fails; on a
\* tag that is none of the four kinds it fails as unrecognized with the
\* reader still in front of the tag.
C4_TagDispatch ==
    Dispatched =>
        /\ result.err = "" => result.val # undefined /\ result.val.type = Tag
        /\ Tag \notin KnownTypes =>
              /\ result.err = "UnrecognizedPayloadType"
              /\ result.idx = Start + UINT32_SIZE

C4_Witness ==
    /\ Dispatched
    /\ origin = "retyped"
    /\ Tag = 256
    /\ result.err = "UnrecognizedPayloadType"

\* C5 as claimed: once the type tag of a valid encoded Transaction is
\* replaced by the tag of another kind, deserializePayload fails.
C5_TagEnforced ==
    (/\ pc = "decoded"
     /\ origin = "retyped"
     /\ object.type = TRANSACTION_PAYLOAD_TYPE
     /\ ValidPayload(object)
     /\ Tag \in KnownTypes) => result.err # ""

\* Where the embedded envelope of a Milestone with k public keys starts,
\* counted from the Milestone's own envelope.
ReceiptOffset(k) ==
    UINT32_SIZE + TYPE_LENGTH + UINT32_SIZE + UINT64_SIZE + MESSAGE_ID_LENGTH
    + MESSAGE_ID_LENGTH + MERKLE_PROOF_LENGTH + BYTE_SIZE + k * PUBLIC_KEY_SIZE

\* A Milestone with keys and signatures whose embedded payload is a
\* well-formed payload of another kind than Receipt, as encoded.
WrongKindEmbedded ==
    /\ pc = "decoded"
    /\ origin \in {"encoded", "extended"}
    /\ object.type = MILESTONE_PAYLOAD_TYPE
    /\ Len(object.publicKeys) >= 1
    /\ Len(object.signatures) >= 1
    /\ object.receipt # undefined
    /\ object.receipt.type # RECEIPT_PAYLOAD_TYPE
    /\ ValidPayload(object.receipt)

\* C6: a Milestone that decode returns embeds nothing or a Receipt; a
\* Milestone whose embedded envelope holds a well-formed payload of another
\* kind fails as an invalid nested kind, with the reader right behind the
\* embedded envelope (the signature count is not read).
C6_NestedKind ==
    /\ (pc = "decoded" /\ result.err = "" /\ result.val # undefined
            /\ result.val.type = MILESTONE_PAYLOAD_TYPE)
         => \/ result.val.receipt = undefined
            \/ result.val.receipt.type = RECEIPT_PAYLOAD_TYPE
    /\ WrongKindEmbedded =>
         LET at == Start + ReceiptOffset(Len(object.publicKeys))
         IN /\ result.err = "NestedKind"
            /\ result.idx = at + UINT32_SIZE + UIntAt(readStream.storage, at, UINT32_SIZE)

C6_Witness ==
    /\ WrongKindEmbedded
    /\ object.receipt.type = TRANSACTION_PAYLOAD_TYPE
    /\ result.err = "NestedKind"

\* C7 as claimed: encoding an Indexation fails for its index length exactly
\* when the UTF-8 byte length of the index is outside [1, 64].
C7_BoundaryRejection ==
    (pc = "written" /\ object # undefined /\ object.type = INDEXATION_PAYLOAD_TYPE) =>
        (writeStream.err = "IndexKeyLength"
            <=> Len(Utf8ToBytes(object.index)) \notin
                    MIN_INDEXATION_KEY_LENGTH..MAX_INDEXATION_KEY_LENGTH)

\* C8 as claimed: a rejected index length leaves the write stream as it was,
\* through serializePayload as through serializeIndexationPayload.
C8_NothingWritten ==
    (pc = "written" /\ writeStream.err = "IndexKeyLength") =>
        /\ writeStream.storage = before.storage
        /\ writeStream.writeIndex = before.writeIndex

\* C9 as claimed: whatever the bytes, deserializePayload is never active more
\* than twice at once.  A Milestone decodes its embedded envelope before it
\* looks at the kind it got, so a Milestone embedded in a Milestone starts a
\* third call.
C9_DepthAtMostTwo ==
    pc = "decoded" => result.depth <= 2

\* C10 as claimed: whenever deserializePayload succeeds, the reader has
\* advanced by 4 bytes plus the declared length.
C10_EnvelopeFraming ==
    (pc = "decoded" /\ result.err = "") =>
        result.idx = Start + UINT32_SIZE + Declared

====
